---- MODULE Spec2Model ----
(***************************************************************************)
(* A model of src/src/pipeline.py: Pipeline (an ordered, mutable list of   *)
(* steps), PipelineCursor (executes the head step and builds the           *)
(* continuation over the tail) and _default_error_handler.                 *)
(*                                                                         *)
(* The synchronous recursion of cursor invocations is an explicit call     *)
(* stack: one frame per live PipelineCursor.__call__.  Steps and error     *)
(* handlers are supplied by the caller; the model drives the cursor with a *)
(* small repertoire of them (StepKinds, HandlerArgs), each a short script  *)
(* of calls to the continuation it was given.                              *)
(***************************************************************************)
EXTENDS Naturals, Sequences, FiniteSets, TLC

\* Longest step list explored.
MaxLen == 3

\* The steps a caller may supply, by behaviour:
\*   fwd      next_step(ctx + "fwd")
\*   rec      record(ctx + "rec"), the continuation is not invoked
\*   raise    raise E
\*   fan      next_step(ctx + "d1"); next_step(ctx + "d2")
\*   fwdraise next_step(ctx); raise E
\*   catch    try: next_step(ctx) except Exception: pass
\*   append   pipeline.append(rec); next_step(ctx)
\*   retry    try: next_step(ctx)
\*            except Exception:
\*                try: next_step(ctx) except Exception: pass
StepKinds == {"fwd", "rec", "raise", "fan", "fwdraise", "catch", "append", "retry"}

\* The steps that handle an exception coming out of their continuation.
CatchingKinds == {"catch", "retry"}

\* The error_handler argument of Pipeline.__call__: None, or a handler that
\* resumes (calls next_step(ctx)), swallows (returns) or re-raises the error.
HandlerArgs == {"None", "resume", "swallow", "reraise"}

\* The data contexts handed to Pipeline.__call__ (strings, as sequences of parts).
Contexts == {<<"x">>, <<"y">>}

VARIABLES
    queue,      \* Pipeline.queue, the one mutable list object
    status,     \* "idle", "constructed" (line 69 done), "running", "returned", "raised"
    root,       \* the cursor built by Pipeline.__call__ (execute, line 69)
    stack,      \* live PipelineCursor.__call__ frames, innermost last
    exc,        \* the exception in flight (propagating, or escaped from the run)
    recorded,   \* what the rec steps recorded, in order
    log,        \* history: step executions of the current run
    hlog,       \* history: error handler calls of the current run
    faults,     \* history: faults raised by steps in the current run, each with
                \* the number of step executions begun when it was raised
    args,       \* history: the arguments of the current Pipeline.__call__
    snap,       \* history: Pipeline.queue when Pipeline.__call__ was entered
    nAdded,     \* history: steps given to the constructor plus appends performed
    prev        \* history: the previous run, when it was an invocation of the same
                \* list with the same arguments (valid), else NoPrev

vars == <<queue, status, root, stack, exc, recorded, log, hlog, faults, args, snap, nAdded, prev>>

NoFault == [by |-> "none", ctx |-> <<>>, id |-> 0]
NoCursor == [alias |-> FALSE, steps |-> <<>>, error_handler |-> "none", pos |-> 0]
NoArgs == [data_context |-> <<>>, error_handler |-> "none"]
NoPrev == [valid |-> FALSE, log |-> <<>>, recorded |-> <<>>, status |-> "idle", exc |-> NoFault]

\* Sequences over S of length at most n.
SeqsUpTo(S, n) == UNION {[1..k -> S] : k \in 0..n}

Last(s) == s[Len(s)]
Front(s) == SubSeq(s, 1, Len(s) - 1)

\* ---------------------------------------------------------------- cursor

\* PipelineCursor.__init__: self.queue = steps keeps a reference to the list
\* it is given.  alias = TRUE: that list is Pipeline.queue itself; FALSE: it is
\* a fresh list (a slice), held by value.  pos counts the cursors between this
\* one and the root (history only).
PipelineCursor(alias, steps, error_handler, pos) ==
    [alias |-> alias, steps |-> IF alias THEN <<>> ELSE steps,
     error_handler |-> error_handler, pos |-> pos]

\* The list a cursor's self.queue denotes now.
QueueOf(c) == IF c.alias THEN queue ELSE c.steps

\* self.queue[0]
CurrentStep(q) == Head(q)

\* A faulty Remaining: self.queue[0:], the head is not dropped.
RemainingAll(q) == q

\* self.queue[1:], a new list
Remaining(q) == Tail(q)

\* A faulty NextCursor: next_step is the cursor itself, nothing is consumed.
NextCursorSame(c) == c

\* A faulty NextCursor: PipelineCursor(self.queue[2:], ...), a step is skipped.
NextCursorSkip(c) ==
    PipelineCursor(FALSE, SubSeq(QueueOf(c), 3, Len(QueueOf(c))), c.error_handler, c.pos + 1)

\* next_step = PipelineCursor(self.queue[1:], self.error_handler)
NextCursor(c) ==
    PipelineCursor(FALSE, Remaining(QueueOf(c)), c.error_handler, c.pos + 1)

\* A faulty EffectiveHandler: the handler passed to Pipeline.__call__ is
\* ignored, the default one is used.
EffectiveHandlerAlwaysDefault(h) == "_default_error_handler"

\* error_handler or _default_error_handler
EffectiveHandler(h) == IF h = "None" THEN "_default_error_handler" ELSE h

\* A faulty CallFrame: the cursor hands its step the context Pipeline.__call__
\* was given instead of the one the cursor was called with.
CallFrameOriginal(c, d) ==
    [cursor |-> c, data |-> args.data_context, pc |-> "call", cur |-> "none",
     next |-> NoCursor, spc |-> 0, err |-> NoFault]

\* A frame of PipelineCursor.__call__(data_context), at its first line.
CallFrame(c, d) ==
    [cursor |-> c, data |-> d, pc |-> "call", cur |-> "none",
     next |-> NoCursor, spc |-> 0, err |-> NoFault]

Top == Last(stack)

\* The exception a raising step raises: a new object at every raise (id is its
\* identity, the ordinal of the raise in the run).
FaultOf(f) == [by |-> f.cur, ctx |-> f.data, id |-> Len(faults) + 1]

\* The callee on top of st returns normally: its frame is popped and the
\* caller (a step or a handler) moves past its call.
ReturnTo(st) ==
    IF Len(st) = 1 THEN <<>>
    ELSE [Front(st) EXCEPT ![Len(st) - 1].spc = @ + 1]

\* A faulty OnStepReturn: after its step returns the cursor goes on to call
\* next_step(data_context) itself.
OnStepReturnAdvance(st) ==
    Append([st EXCEPT ![Len(st)].pc = "advanced"],
           [cursor |-> Last(st).next, data |-> Last(st).data, pc |-> "call", cur |-> "none",
            next |-> NoCursor, spc |-> 0, err |-> NoFault])

\* Lines 52-53, the step called in the try body returns: nothing follows it,
\* the cursor's own invocation returns to its caller.
OnStepReturn(st) == ReturnTo(st)

\* A faulty OnHandlerReturn: when the handler returns the cursor goes on with
\* the rest of the pipeline itself, calling next_step(data_context).
OnHandlerReturnAdvance(st) ==
    [st EXCEPT ![Len(st)] = CallFrame(st[Len(st)].next, st[Len(st)].data)]

\* Line 55, the error handler called in the except clause returns: nothing
\* follows it, the cursor's own invocation returns normally to its caller.
OnHandlerReturn(st) == ReturnTo(st)

\* A faulty OnHandlerRaise: the exception leaves the whole invocation at once,
\* the cursors further out do not catch it.
OnHandlerRaiseOut(st) == <<>>

\* A faulty OnHandlerRaise: the exception passes by the step that invoked the
\* cursor and surfaces two levels up.
OnHandlerRaiseSkip(st) == IF Len(st) > 1 THEN Front(Front(st)) ELSE Front(st)

\* Line 55, the error handler raises: the call is made inside the except
\* clause, nothing in this cursor catches it, the exception leaves the
\* cursor's invocation and surfaces in its caller, at the call of the cursor.
OnHandlerRaise(st) == Front(st)

\* The top frame calls cursor c with data d.
Call(st, c, d) == Append(st, CallFrame(c, d))

\* A faulty EnterHandler: the handler is given the context Pipeline.__call__
\* was called with instead of the one the failing cursor was called with.
EnterHandlerRootData(f, e) ==
    [f EXCEPT !.pc = "handler", !.spc = 0, !.err = e, !.data = args.data_context]

\* A faulty EnterHandler: the handler is given a continuation of its own, with
\* nothing left to execute, instead of the one the step was given.
EnterHandlerSpent(f, e) ==
    [f EXCEPT !.pc = "handler", !.spc = 0, !.err = e,
              !.next = PipelineCursor(FALSE, <<>>, f.cursor.error_handler, f.next.pos)]

\* A faulty EnterHandler: the handler is given the failing cursor itself
\* (self) as its continuation.
EnterHandlerSelf(f, e) == [f EXCEPT !.pc = "handler", !.spc = 0, !.err = e, !.next = f.cursor]

\* except Exception as error: self.error_handler(error, data_context, next_step)
EnterHandler(f, e) == [f EXCEPT !.pc = "handler", !.spc = 0, !.err = e]

\* What the handler of frame f (in its except clause) is called with.
HandlerCall(f, e) ==
    [error |-> f.err, data |-> f.data, next |-> f.next, handler |-> f.cursor.error_handler]

Running == status = "running" /\ stack # <<>> /\ exc = NoFault

InStep(k) == Running /\ Top.pc = "step" /\ Top.cur = k

InHandler(h) == Running /\ Top.pc = "handler" /\ Top.cursor.error_handler = h

\* Frame conditions.
Pipe == <<queue, nAdded>>
RunGhosts == <<root, args, snap, prev>>
Hist == <<log, hlog, faults, recorded>>

\* The top frame's handler returns.
HandlerReturn ==
    /\ stack' = OnHandlerReturn(stack)
    /\ status' = IF OnHandlerReturn(stack) = <<>> THEN "returned" ELSE "running"
    /\ exc' = NoFault

\* A terminal cursor returns.
DoReturn ==
    /\ stack' = ReturnTo(stack)
    /\ status' = IF Len(stack) = 1 THEN "returned" ELSE "running"
    /\ exc' = NoFault

\* The top frame's step returns.
StepReturn ==
    /\ stack' = OnStepReturn(stack)
    /\ status' = IF OnStepReturn(stack) = <<>> THEN "returned" ELSE "running"
    /\ exc' = NoFault

\* The top frame's step raises FaultOf(Top): the cursor's except clause
\* catches it and calls the error handler.
DoRaise ==
    /\ stack' = [stack EXCEPT ![Len(stack)] = EnterHandler(Top, FaultOf(Top))]
    /\ faults' = Append(faults, [fault |-> FaultOf(Top), nlog |-> Len(log),
                                 pos |-> Top.cursor.pos])
    /\ hlog' = Append(hlog, HandlerCall(EnterHandler(Top, FaultOf(Top)), FaultOf(Top)))
    /\ UNCHANGED <<status, exc>>

\* ---------------------------------------------------------------- Pipeline

\* Pipeline.__init__(*steps)
Init ==
    /\ queue \in SeqsUpTo(StepKinds, MaxLen)
    /\ nAdded = Len(queue)
    /\ status = "idle"
    /\ root = NoCursor
    /\ stack = <<>>
    /\ exc = NoFault
    /\ recorded = <<>>
    /\ log = <<>>
    /\ hlog = <<>>
    /\ faults = <<>>
    /\ args = NoArgs
    /\ snap = <<>>
    /\ prev = NoPrev

\* A faulty AppendTo: a step already in the list is not added again.
AppendToUnique(q, step) ==
    IF \E i \in 1..Len(q) : q[i] = step THEN q ELSE Append(q, step)

\* self.queue.append(step)
AppendTo(q, step) == Append(q, step)

\* Pipeline.__len__
PipelineLen == Len(queue)

NoRun == status \in {"idle", "returned", "raised"}

\* Pipeline.append(step), called between invocations.
PipelineAppend(step) ==
    /\ NoRun
    /\ Len(queue) < MaxLen
    /\ queue' = AppendTo(queue, step)
    /\ nAdded' = nAdded + 1
    /\ UNCHANGED <<status, root, stack, exc, recorded, log, hlog, faults, args, snap, prev>>

\* Pipeline.append(step) by another caller while an invocation is in progress.
PipelineAppendDuringRun(step) ==
    /\ status \in {"constructed", "running"}
    /\ Len(queue) < MaxLen
    /\ queue' = AppendTo(queue, step)
    /\ nAdded' = nAdded + 1
    /\ UNCHANGED <<status, root, stack, exc, recorded, log, hlog, faults, args, snap, prev>>

\* The cursor Pipeline.__call__ builds: PipelineCursor(self.queue, ...) is
\* handed the pipeline's own list.
RootCursor(h) == PipelineCursor(TRUE, queue, EffectiveHandler(h), 0)

\* Pipeline.__call__, line 69: execute = PipelineCursor(self.queue, error_handler or ...)
InvokeConstruct(d, h) ==
    /\ NoRun
    /\ root' = RootCursor(h)
    /\ status' = "constructed"
    /\ args' = [data_context |-> d, error_handler |-> h]
    /\ snap' = queue
    /\ prev' = IF status # "idle" /\ snap = queue
                    /\ args = [data_context |-> d, error_handler |-> h]
               THEN [valid |-> TRUE, log |-> log, recorded |-> recorded,
                     status |-> status, exc |-> exc]
               ELSE NoPrev
    /\ stack' = <<>>
    /\ exc' = NoFault
    /\ recorded' = <<>>
    /\ log' = <<>>
    /\ hlog' = <<>>
    /\ faults' = <<>>
    /\ UNCHANGED Pipe

\* Pipeline.__call__, line 70: return execute(data_context)
InvokeExecute ==
    /\ status = "constructed"
    /\ status' = "running"
    /\ stack' = <<CallFrame(root, args.data_context)>>
    /\ UNCHANGED <<exc, Pipe, RunGhosts, Hist>>

\* ---------------------------------------------------------------- PipelineCursor.__call__

\* A faulty CursorCall: no "if not self.queue: return"; self.queue[0] on an
\* empty list raises IndexError out of the cursor.
CursorCallUnguarded ==
    /\ Running
    /\ Top.pc = "call"
    /\ IF QueueOf(Top.cursor) = <<>>
       THEN /\ stack' = Front(stack)
            /\ exc' = [by |-> "IndexError", ctx |-> Top.data, id |-> 0]
            /\ status' = IF Len(stack) = 1 THEN "raised" ELSE "running"
            /\ UNCHANGED <<log, queue>>
       ELSE /\ stack' = [stack EXCEPT ![Len(stack)] =
                           [Top EXCEPT !.pc = "step",
                                       !.cur = CurrentStep(QueueOf(Top.cursor)),
                                       !.next = NextCursor(Top.cursor),
                                       !.spc = 0]]
            /\ log' = Append(log, [pos |-> Top.cursor.pos,
                                   step |-> CurrentStep(QueueOf(Top.cursor)),
                                   data |-> Top.data,
                                   next |-> NextCursor(Top.cursor)])
            /\ UNCHANGED <<status, exc, queue>>
    /\ UNCHANGED <<nAdded, RunGhosts, hlog, faults, recorded>>

\* A faulty CursorCall: current_step = self.queue.pop(0); the continuation
\* is built over what is left, and the list the cursor holds loses its head.
CursorCallPop ==
    /\ Running
    /\ Top.pc = "call"
    /\ IF QueueOf(Top.cursor) = <<>>
       THEN DoReturn /\ UNCHANGED <<log, queue>>
       ELSE /\ stack' = [stack EXCEPT ![Len(stack)] =
                           [Top EXCEPT !.pc = "step",
                                       !.cur = CurrentStep(QueueOf(Top.cursor)),
                                       !.next = NextCursor(Top.cursor),
                                       !.spc = 0,
                                       !.cursor.steps = IF Top.cursor.alias THEN <<>>
                                                        ELSE Remaining(@)]]
            /\ queue' = IF Top.cursor.alias THEN Remaining(queue) ELSE queue
            /\ log' = Append(log, [pos |-> Top.cursor.pos,
                                   step |-> CurrentStep(QueueOf(Top.cursor)),
                                   data |-> Top.data,
                                   next |-> NextCursor(Top.cursor)])
            /\ UNCHANGED <<status, exc>>
    /\ UNCHANGED <<nAdded, RunGhosts, hlog, faults, recorded>>

\* Lines 47-53: return on an empty queue; otherwise pick the head, build the
\* continuation over the tail and enter the head step.
CursorCall ==
    /\ Running
    /\ Top.pc = "call"
    /\ IF QueueOf(Top.cursor) = <<>>
       THEN DoReturn /\ UNCHANGED log
       ELSE /\ stack' = [stack EXCEPT ![Len(stack)] =
                           [Top EXCEPT !.pc = "step",
                                       !.cur = CurrentStep(QueueOf(Top.cursor)),
                                       !.next = NextCursor(Top.cursor),
                                       !.spc = 0]]
            /\ log' = Append(log, [pos |-> Top.cursor.pos,
                                   step |-> CurrentStep(QueueOf(Top.cursor)),
                                   data |-> Top.data,
                                   next |-> NextCursor(Top.cursor)])
            /\ UNCHANGED <<status, exc>>
    /\ UNCHANGED <<Pipe, RunGhosts, hlog, faults, recorded>>

\* Where a catching step goes on when the call it made at spc raises: catch
\* is done; retry calls again after the first failure and is done after the second.
AfterCatch(k, spc) == IF k = "retry" THEN (IF spc = 0 THEN 2 ELSE 3) ELSE 1

\* Lines 54-55 for an exception that came out of a call the top frame made:
\* a catching step handles it itself; out of any other step it reaches the
\* cursor's except clause and the handler is called; out of the handler
\* it leaves this cursor invocation.
Propagate ==
    /\ status = "running" /\ stack # <<>> /\ exc # NoFault
    /\ IF Top.pc = "step" /\ Top.cur \in CatchingKinds
       THEN /\ stack' = [stack EXCEPT ![Len(stack)].spc = AfterCatch(Top.cur, @)]
            /\ exc' = NoFault
            /\ UNCHANGED <<status, hlog>>
       ELSE IF Top.pc = "step"
       THEN /\ stack' = [stack EXCEPT ![Len(stack)] = EnterHandler(Top, exc)]
            /\ hlog' = Append(hlog, HandlerCall(EnterHandler(Top, exc), exc))
            /\ exc' = NoFault
            /\ UNCHANGED status
       ELSE /\ stack' = OnHandlerRaise(stack)
            /\ status' = IF OnHandlerRaise(stack) = <<>> THEN "raised" ELSE "running"
            /\ UNCHANGED <<exc, hlog>>
    /\ UNCHANGED <<Pipe, RunGhosts, log, faults, recorded>>

\* ---------------------------------------------------------------- steps

StepFwd ==
    /\ InStep("fwd")
    /\ IF Top.spc = 0
       THEN /\ stack' = Call(stack, Top.next, Append(Top.data, "fwd"))
            /\ UNCHANGED <<status, exc>>
       ELSE StepReturn
    /\ UNCHANGED <<Pipe, RunGhosts, Hist>>

StepRec ==
    /\ InStep("rec")
    /\ recorded' = Append(recorded, Append(Top.data, "rec"))
    /\ StepReturn
    /\ UNCHANGED <<Pipe, RunGhosts, log, hlog, faults>>

StepRaise ==
    /\ InStep("raise")
    /\ DoRaise
    /\ UNCHANGED <<Pipe, RunGhosts, log, recorded>>

StepFan ==
    /\ InStep("fan")
    /\ IF Top.spc = 0
       THEN /\ stack' = Call(stack, Top.next, Append(Top.data, "d1"))
            /\ UNCHANGED <<status, exc>>
       ELSE IF Top.spc = 1
       THEN /\ stack' = Call(stack, Top.next, Append(Top.data, "d2"))
            /\ UNCHANGED <<status, exc>>
       ELSE StepReturn
    /\ UNCHANGED <<Pipe, RunGhosts, Hist>>

StepFwdRaise ==
    /\ InStep("fwdraise")
    /\ IF Top.spc = 0
       THEN /\ stack' = Call(stack, Top.next, Top.data)
            /\ UNCHANGED <<status, exc, hlog, faults>>
       ELSE DoRaise
    /\ UNCHANGED <<Pipe, RunGhosts, log, recorded>>

StepCatch ==
    /\ InStep("catch")
    /\ IF Top.spc = 0
       THEN /\ stack' = Call(stack, Top.next, Top.data)
            /\ UNCHANGED <<status, exc>>
       ELSE StepReturn
    /\ UNCHANGED <<Pipe, RunGhosts, Hist>>

StepRetry ==
    /\ InStep("retry")
    /\ IF Top.spc \in {0, 2}
       THEN /\ stack' = Call(stack, Top.next, Top.data)
            /\ UNCHANGED <<status, exc>>
       ELSE StepReturn
    /\ UNCHANGED <<Pipe, RunGhosts, Hist>>

StepAppend ==
    /\ InStep("append")
    /\ IF Top.spc = 0
       THEN /\ Len(queue) < MaxLen
            /\ queue' = AppendTo(queue, "rec")
            /\ nAdded' = nAdded + 1
            /\ stack' = Call(stack, Top.next, Top.data)
            /\ UNCHANGED <<status, exc>>
       ELSE StepReturn /\ UNCHANGED Pipe
    /\ UNCHANGED <<RunGhosts, Hist>>

\* ---------------------------------------------------------------- handlers

\* A faulty RaiseOf: raise PipelineError(error), the fault is wrapped.
RaiseWrapped(error) == [by |-> "PipelineError", ctx |-> error.ctx, id |-> error.id]

\* _default_error_handler: raise error
RaiseOf(error) == error

HandlerDefault ==
    /\ InHandler("_default_error_handler")
    /\ stack' = OnHandlerRaise(stack)
    /\ exc' = RaiseOf(Top.err)
    /\ status' = IF OnHandlerRaise(stack) = <<>> THEN "raised" ELSE "running"
    /\ UNCHANGED <<Pipe, RunGhosts, Hist>>

\* A custom handler that re-raises: (e, ctx, next) => raise e
HandlerReraise ==
    /\ InHandler("reraise")
    /\ stack' = OnHandlerRaise(stack)
    /\ exc' = Top.err
    /\ status' = IF OnHandlerRaise(stack) = <<>> THEN "raised" ELSE "running"
    /\ UNCHANGED <<Pipe, RunGhosts, Hist>>

\* (e, ctx, next) => next(ctx)
HandlerResume ==
    /\ InHandler("resume")
    /\ IF Top.spc = 0
       THEN /\ stack' = Call(stack, Top.next, Top.data)
            /\ UNCHANGED <<status, exc>>
       ELSE HandlerReturn
    /\ UNCHANGED <<Pipe, RunGhosts, Hist>>

\* (e, ctx, next) => None
HandlerSwallow ==
    /\ InHandler("swallow")
    /\ HandlerReturn
    /\ UNCHANGED <<Pipe, RunGhosts, Hist>>

\* ---------------------------------------------------------------- specifications

RunStep ==
    \/ CursorCall
    \/ Propagate
    \/ StepFwd
    \/ StepRec
    \/ StepRaise
    \/ StepFan
    \/ StepFwdRaise
    \/ StepCatch
    \/ StepRetry
    \/ StepAppend
    \/ HandlerDefault
    \/ HandlerReraise
    \/ HandlerResume
    \/ HandlerSwallow

\* One caller: every call into the pipeline comes from the one call stack.
Next ==
    \/ \E step \in StepKinds : PipelineAppend(step)
    \/ \E d \in Contexts, h \in HandlerArgs : InvokeConstruct(d, h)
    \/ InvokeExecute
    \/ RunStep

Spec == Init /\ [][Next]_vars

\* Several callers: another caller may append while an invocation is in progress.
NextShared ==
    \/ Next
    \/ \E step \in StepKinds : PipelineAppendDuringRun(step)

SpecShared == Init /\ [][NextShared]_vars

\* One caller whose call stack keeps running: Pipeline.__call__ goes from line
\* 69 to line 70, and a cursor, step or handler that can take its next step
\* takes it (the step and handler bodies terminate).
FairSpec == Spec /\ WF_vars(InvokeExecute) /\ WF_vars(RunStep)

\* ---------------------------------------------------------------- properties

Done == status \in {"returned", "raised"}
Started == status \in {"running", "returned", "raised"}

\* s_i .. s_n of the list the invocation started with (i counted from 0).
SnapFrom(i) == SubSeq(snap, i + 1, Len(snap))

\* How often the step at position p was executed in this run.
CountPos(p) == Cardinality({k \in 1..Len(log) : log[k].pos = p})

\* The executions of the step at position p, in order.
AtPos(p) == SelectSeq(log, LAMBDA e : e.pos = p)

\* C1: for a pipeline invoked with [s0..sn], every execution of a step is the
\* execution of s_i for the i-th cursor of the chain, and the continuation it
\* is handed is a cursor over exactly [s_{i+1}..sn] (empty for sn) with the same
\* handler; every cursor invoked by a step or handler is the continuation that
\* step was handed.
C1_ContinuationIsTail ==
    /\ \A k \in 1..Len(log) :
          /\ log[k].pos < Len(snap)
          /\ log[k].step = snap[log[k].pos + 1]
          /\ log[k].next = [alias |-> FALSE, steps |-> SnapFrom(log[k].pos + 1),
                            error_handler |-> EffectiveHandler(args.error_handler),
                            pos |-> log[k].pos + 1]
    /\ \A j \in 2..Len(stack) : stack[j].cursor = stack[j - 1].next
    /\ \A j \in 1..Len(stack) :
          stack[j].pc # "call" =>
              /\ stack[j].cur = snap[stack[j].cursor.pos + 1]
              /\ stack[j].next.steps = SnapFrom(stack[j].cursor.pos + 1)

\* C1 witness: a run went through s0, s1 and s2, and s2 holds a terminal continuation.
C1_Witness ==
    /\ Len(log) >= 3
    /\ log[3].pos = 2
    /\ log[3].next.steps = <<>>
    /\ Len(stack) = 3

NoCatchUpTo(k) == \A j \in 1..k : snap[j] \notin CatchingKinds

\* C2 as stated: with the default handler (no handler passed), a fault E raised
\* by any step s_k that no step catches locally leaves Pipeline.__call__ as E,
\* and no step after s_k (s_{k+1}, ...) is executed during that invocation.
C2_NoStepBehindFaultingStep ==
    (Started /\ args.error_handler = "None" /\ faults # <<>>
             /\ NoCatchUpTo(faults[1].pos + 1)) =>
        /\ status # "returned"
        /\ status = "raised" => exc = faults[1].fault
        /\ \A k \in 1..Len(log) : log[k].pos <= faults[1].pos

\* C2, amended: with the default handler (no handler passed), once a step s_k
\* raises E and no step up to s_k catches locally, no further step is executed,
\* no other fault is raised, the invocation does not return normally, and when
\* it ends the fault that leaves Pipeline.__call__ is E itself; a step after
\* s_k has run only if a continuation was invoked before E was raised, never
\* when s_k raises without invoking its continuation.
C2_DefaultPropagates ==
    (Started /\ args.error_handler = "None") =>
        /\ status = "raised" => faults # <<>>
        /\ (faults # <<>> /\ NoCatchUpTo(faults[1].pos + 1)) =>
              /\ Len(faults) = 1
              /\ Len(log) = faults[1].nlog
              /\ status # "returned"
              /\ status = "raised" => exc = faults[1].fault
              /\ faults[1].fault.by = "raise" =>
                    \A k \in 1..Len(log) : log[k].pos <= faults[1].pos

\* C2 witness: the third step raised, the fault left the invocation.
C2_Witness ==
    /\ status = "raised"
    /\ args.error_handler = "None"
    /\ Len(faults) = 1
    /\ faults[1].pos = 2
    /\ NoCatchUpTo(3)
    /\ exc = faults[1].fault

\* C3: steps [raises(E), recorder] with a handler that calls its continuation
\* with the context it was given: the recorder is executed exactly once, with
\* the context passed to invoke, and invoke returns normally.
C3_HandlerResume ==
    (Started /\ snap = <<"raise", "rec">> /\ args.error_handler = "resume") =>
        /\ status # "raised"
        /\ exc = NoFault
        /\ Len(log) <= 2
        /\ Len(log) = 2 => log[2].step = "rec" /\ log[2].data = args.data_context
        /\ Len(recorded) <= 1
        /\ status = "returned" =>
              /\ Len(log) = 2
              /\ recorded = <<Append(args.data_context, "rec")>>
              /\ Len(hlog) = 1

\* C3 witness: such an invocation returned.
C3_Witness ==
    /\ status = "returned"
    /\ snap = <<"raise", "rec">>
    /\ args.error_handler = "resume"
    /\ Len(recorded) = 1

\* C4 as stated: once a step s_i that returns without invoking its continuation
\* (rec) has run, no step after it is executed in that invocation and the
\* invocation returns normally (never raises).
C4_ShortCircuitAlwaysReturns ==
    Started =>
        \A i \in 1..Len(snap) :
            (snap[i] = "rec" /\ CountPos(i - 1) >= 1) =>
                /\ \A k \in 1..Len(log) : log[k].pos < i
                /\ status # "raised"

\* C4, amended: a step that returns without invoking its continuation (rec)
\* ends the chain: no step after it is executed in that invocation, and,
\* provided no step before it raises, the invocation returns normally (no
\* fault, no handler call).
C4_ShortCircuit ==
    Started =>
        \A i \in 1..Len(snap) :
            snap[i] = "rec" =>
                /\ \A k \in 1..Len(log) : log[k].pos < i
                /\ (\A j \in 1..(i - 1) : snap[j] \notin {"raise", "fwdraise"}) =>
                      /\ status # "raised"
                      /\ faults = <<>>
                      /\ hlog = <<>>

\* C4 witness: the second of three steps short-circuited and the invocation returned.
C4_Witness ==
    /\ status = "returned"
    /\ Len(snap) = 3
    /\ snap[2] = "rec"
    /\ snap[1] = "fwd"
    /\ Len(log) = 2

\* What a step of kind k that received d passes to its continuation (when it, or
\* a resuming handler on its behalf, invokes it).
Passed(k, d) ==
    CASE k = "fwd" -> {Append(d, "fwd")}
      [] k = "fan" -> {Append(d, "d1"), Append(d, "d2")}
      [] k = "rec" -> {}
      [] OTHER -> {d}

\* C5: the first step receives the context given to Pipeline.__call__, every
\* other step exactly a value its predecessor passed to the continuation; for
\* [A, B] (A forwards ctx+"fwd", B records ctx+"rec") invoked with "x" the
\* record is exactly "x-fwd-rec".
C5_DataPassedUnaltered ==
    /\ \A k \in 1..Len(log) :
          IF log[k].pos = 0
          THEN k = 1 /\ log[k].data = args.data_context
          ELSE \E j \in 1..(k - 1) :
                  /\ log[j].pos = log[k].pos - 1
                  /\ log[k].data \in Passed(log[j].step, log[j].data)
    /\ (status = "returned" /\ snap = <<"fwd", "rec">> /\ args.data_context = <<"x">>) =>
          recorded = << <<"x", "fwd", "rec">> >>

\* C5 witness: scenario A ran to its end.
C5_Witness ==
    /\ status = "returned"
    /\ snap = <<"fwd", "rec">>
    /\ args.data_context = <<"x">>
    /\ recorded = << <<"x", "fwd", "rec">> >>

\* The step at index i fans out and every step after it forwards once (the
\* last may be a recorder).
FanPipeline(i) ==
    /\ snap[i] = "fan"
    /\ \A j \in (i + 1)..Len(snap) :
          \/ snap[j] \in {"fwd", "catch"}
          \/ j = Len(snap) /\ snap[j] = "rec"

\* C6: each execution of a step that invokes its continuation twice, with d1
\* and d2, makes every step after it execute exactly twice, once per branch;
\* the first downstream step receives d1 in the first branch and d2 in the
\* second.
C6_FanOut ==
    Started =>
        \A i \in 1..Len(snap) :
            FanPipeline(i) =>
                /\ \A p \in i..(Len(snap) - 1) :
                      /\ CountPos(p) <= 2 * CountPos(i - 1)
                      /\ Done => CountPos(p) = 2 * CountPos(i - 1)
                /\ \A n \in 1..Len(AtPos(i)) :
                      AtPos(i)[n].data =
                          Append(AtPos(i - 1)[(n + 1) \div 2].data,
                                 IF n % 2 = 1 THEN "d1" ELSE "d2")

\* C6 witness: a fan-out with two steps downstream completed.
C6_Witness ==
    /\ status = "returned"
    /\ Len(snap) = 3
    /\ FanPipeline(1)
    /\ CountPos(0) = 1
    /\ CountPos(2) = 2
    /\ AtPos(1)[2].data = Append(args.data_context, "d2")

\* C7: the steps a run executes are those of the list as it was when
\* Pipeline.__call__ was entered, whatever is appended afterwards: the i-th
\* cursor of the chain executes s_i of that list and nothing beyond s_n.
C7_RunExecutesSnapshot ==
    \A k \in 1..Len(log) :
        /\ log[k].pos < Len(snap)
        /\ log[k].step = snap[log[k].pos + 1]

\* C8: invoking an empty pipeline, or any cursor whose list is empty, executes
\* no step, calls no handler and returns normally to its caller.
C8_EmptyPipeline ==
    (Started /\ snap = <<>>) =>
        /\ log = <<>>
        /\ hlog = <<>>
        /\ faults = <<>>
        /\ recorded = <<>>
        /\ exc = NoFault
        /\ status # "raised"

C8_TerminalCursor ==
    (Running /\ Top.pc = "call" /\ QueueOf(Top.cursor) = <<>>) =>
        /\ log' = log
        /\ hlog' = hlog
        /\ exc' = NoFault
        /\ stack' = ReturnTo(stack)
        /\ status' = IF Len(stack) = 1 THEN "returned" ELSE "running"

\* C8: an invocation of the empty pipeline never executes a step, calls the
\* handler or raises, and every call of a cursor whose list is empty returns
\* at once to its caller, executing no step and calling no handler.
C8_EmptyIsNoOp == []C8_EmptyPipeline /\ [][C8_TerminalCursor]_vars

\* C8 witness: an invocation of the empty pipeline returned.
C8_Witness ==
    /\ status = "returned"
    /\ snap = <<>>
    /\ queue = <<>>
    /\ log = <<>>

\* C9: length() is the number of steps given to the constructor plus the
\* number of appends performed, before, during and after invocations.
C9_LengthCountsAdded == PipelineLen = nAdded

\* C9 witness: steps were appended after an invocation that has completed.
C9_Witness ==
    /\ Done
    /\ Len(log) >= 1
    /\ PipelineLen = Len(snap) + 2
    /\ nAdded = PipelineLen

\* C10: no step of an invocation other than an appending step changes the
\* pipeline's step list, whether the run ends normally or with a fault; and an
\* invocation repeated on the same list with the same arguments executes the
\* same steps with the same outcome.
C10_Repeatable ==
    (Done /\ prev.valid) =>
        /\ log = prev.log
        /\ status = prev.status
        /\ exc = prev.exc
        /\ recorded = prev.recorded

C10_RunKeepsQueue ==
    (status \in {"constructed", "running"} /\ ~InStep("append")) => queue' = queue

\* C10: every step of an invocation that is not an appending step leaves the
\* pipeline's step list as it was, and an invocation repeated on the same list
\* with the same arguments executes the same steps and ends the same way.
C10_InvokeLeavesQueue == []C10_Repeatable /\ [][C10_RunKeepsQueue]_vars

\* C10 witness: a second invocation of the same list ended with a fault, as the first.
C10_Witness ==
    /\ prev.valid
    /\ status = "raised"
    /\ prev.status = "raised"
    /\ Len(log) >= 2
    /\ queue = snap

\* The continuation built by the cursor of position p in this run.
ContinuationAt(p) ==
    [alias |-> FALSE, steps |-> SnapFrom(p + 1),
     error_handler |-> EffectiveHandler(args.error_handler), pos |-> p + 1]

\* The handler calls made for the fault raised as the n-th of the run.
CallsFor(n) == {m \in 1..Len(hlog) : hlog[m].error.id = n}

\* The executions, up to the n-th raise, of the step that raised it.
ExecsOf(n) == {k \in 1..faults[n].nlog : log[k].pos = faults[n].pos}

\* The execution that raised the n-th fault: the latest of them.
ExecOf(n) == CHOOSE k \in ExecsOf(n) : \A k2 \in ExecsOf(n) : k2 <= k

\* C11: whenever a step faults, at any depth, the error handler is called with
\* exactly (the fault, the data context the cursor of the faulting step was
\* called with, the continuation that step was given, the cursor over the steps
\* behind it); every handler call of a run gets the data and continuation of a
\* step execution of its own level and a fault some step raised; and every
\* cursor of one invocation holds the same handler.
C11_HandlerArguments ==
    /\ \A n \in 1..Len(faults) :
          /\ faults[n].fault.id = n
          /\ ExecsOf(n) # {}
          /\ \E m \in CallsFor(n) :
                /\ hlog[m].error = faults[n].fault
                /\ hlog[m].data = log[ExecOf(n)].data
                /\ hlog[m].next = log[ExecOf(n)].next
                /\ hlog[m].next = ContinuationAt(faults[n].pos)
                /\ \A m2 \in CallsFor(n) : m <= m2
    /\ \A m \in 1..Len(hlog) :
          /\ hlog[m].handler = EffectiveHandler(args.error_handler)
          /\ \E n \in 1..Len(faults) : hlog[m].error = faults[n].fault
          /\ \E k \in 1..Len(log) :
                /\ log[k].pos + 1 = hlog[m].next.pos
                /\ log[k].data = hlog[m].data
                /\ log[k].next = hlog[m].next
    /\ \A j \in 1..Len(stack) :
          /\ stack[j].cursor.error_handler = EffectiveHandler(args.error_handler)
          /\ stack[j].pc # "call" =>
                stack[j].next.error_handler = EffectiveHandler(args.error_handler)
          /\ stack[j].pc = "handler" =>
                \E m \in 1..Len(hlog) :
                    /\ hlog[m].error = stack[j].err
                    /\ hlog[m].data = stack[j].data
                    /\ hlog[m].next = stack[j].next
    /\ Started => root.error_handler = EffectiveHandler(args.error_handler)

\* C11 witness: the third step of a pipeline faulted, on a context that is not
\* the one the invocation was given, and a custom handler is running for it.
C11_Witness ==
    /\ Len(stack) = 3
    /\ Top.pc = "handler"
    /\ Len(faults) = 1
    /\ Top.err = faults[1].fault
    /\ Top.data # args.data_context
    /\ Top.next = ContinuationAt(2)
    /\ args.error_handler = "resume"
    /\ Len(hlog) = 1

\* The cursors that exist in the current state: the root cursor of a run that
\* has been constructed and not finished, the cursor of every live invocation
\* and the continuation every running step or handler holds.
LiveCursors ==
    (IF status \in {"constructed", "running"} THEN {root} ELSE {})
        \cup {stack[j].cursor : j \in 1..Len(stack)}
        \cup {stack[j].next : j \in {i \in 1..Len(stack) : stack[i].pc # "call"}}

\* The list cursor c denotes after the step.
QueueOfNext(c) == IF c.alias THEN queue' ELSE c.steps

\* C12 as stated: the step sequence of a cursor never changes after the cursor
\* is constructed, so that every invocation of it executes the same steps.
C12_CursorNeverChanges ==
    [][\A c \in LiveCursors : QueueOfNext(c) = QueueOf(c)]_vars

\* C13 as stated: with a handler that swallows, a fault raised by s_k ends that
\* cursor's invocation successfully, no step after s_k is executed, and
\* Pipeline.__call__ returns normally.
C13_SwallowNoStepBehind ==
    (Started /\ args.error_handler = "swallow") =>
        /\ status # "raised"
        /\ \A n \in 1..Len(faults) :
              \A k \in 1..Len(log) : log[k].pos <= faults[n].pos

\* The swallowing handler is running in the innermost invocation.
Swallowing ==
    /\ status = "running" /\ stack # <<>>
    /\ Top.pc = "handler" /\ Top.cursor.error_handler = "swallow"

\* What the caller's frame looks like when the call it made returns normally.
Resumed(f) == [f EXCEPT !.spc = @ + 1]

\* The state part of C13, amended.
C13_SwallowState ==
    (Started /\ args.error_handler = "swallow") =>
        /\ status # "raised"
        /\ exc = NoFault
        /\ Len(hlog) = Len(faults)
        /\ \A n \in 1..Len(faults) :
              /\ hlog[n].error = faults[n].fault
              /\ \A k \in (ExecOf(n) + 1)..faults[n].nlog :
                    /\ log[k].pos > faults[n].pos
                    /\ faults[n].fault.by # "raise"
        /\ Swallowing => Len(log) = Last(faults).nlog

\* The step part of C13, amended: what the return of the swallowing handler does.
C13_SwallowReturn ==
    Swallowing =>
        /\ log' = log
        /\ faults' = faults
        /\ exc' = NoFault
        /\ Len(stack') = Len(stack) - 1
        /\ Len(stack) > 1 =>
              /\ stack' = [Front(stack) EXCEPT ![Len(stack) - 1] = Resumed(@)]
              /\ status' = "running"
        /\ Len(stack) = 1 => status' = "returned"

\* C13, amended: with a handler that swallows (returns without calling its
\* continuation), a fault raised by s_k ends the invocation of s_k's cursor
\* successfully: the handler is called once for it, nothing is executed between
\* the fault and the return of that cursor, the step that invoked the cursor
\* (s_{k-1}) continues behind its continuation call exactly as after a normal
\* return, and Pipeline.__call__ never ends with a fault.  Steps after s_k have
\* been executed in that cursor's invocation only if s_k itself invoked its
\* continuation before it raised, never when s_k raises at once.
C13_Swallow == []C13_SwallowState /\ [][C13_SwallowReturn]_vars

\* C13 witness: [fan, raise, ..] with the swallowing handler returned: the
\* second step raised in both invocations fan made of its continuation, so fan
\* went on to its second call after the first fault was swallowed.
C13_Witness ==
    /\ status = "returned"
    /\ args.error_handler = "swallow"
    /\ Len(snap) = 3
    /\ snap[1] = "fan" /\ snap[2] = "raise"
    /\ Len(faults) = 2
    /\ Len(log) = 3

\* The handler of the run raises the fault it is given.
Reraising == Started /\ args.error_handler \in {"None", "reraise"}

\* The positions before that of the n-th fault whose step catches locally.
CatchersOf(n) == {c \in 0..(faults[n].pos - 1) : snap[c + 1] \in CatchingKinds}

\* The nearest of them: the step the n-th fault is caught by.
CatcherOf(n) == CHOOSE c \in CatchersOf(n) : \A c2 \in CatchersOf(n) : c2 <= c

\* The level (position of the cursor) of the m-th handler call.
LevelOf(m) == hlog[m].next.pos - 1

\* C14 as stated: with a re-raising handler, once s_{k-1} has caught the fault
\* of s_k locally, Pipeline.__call__ returns normally.
C14_CaughtReturnsNormally ==
    (Reraising /\ Done
        /\ \E n \in 1..Len(faults) : faults[n].pos - 1 \in CatchersOf(n)) =>
        status = "returned"

\* C14, amended: when the handler re-raises a fault caught at the cursor of
\* s_k, the fault is in flight inside the step one level up (s_{k-1}), which
\* is at the call of its continuation; the handler is called for a fault only
\* at the levels between the raising step and the nearest step before it that
\* catches locally, once per level (once only when s_{k-1} is that step), and
\* never at or above the catching step; a fault that leaves Pipeline.__call__
\* is one no step catches; and the invocation returns normally when every
\* fault raised in it has a catching step before it.
C14_ReraiseSurfaces ==
    Reraising =>
        /\ (status = "running" /\ exc # NoFault) =>
              /\ stack # <<>>
              /\ hlog # <<>>
              /\ exc = Last(hlog).error
              /\ Top.pc = "step"
              /\ Top.cursor.pos = LevelOf(Len(hlog)) - 1
              /\ Top.cur \in {"fwd", "fan", "fwdraise", "catch", "append", "retry"}
        /\ \A n \in 1..Len(faults) :
              /\ \A m1, m2 \in CallsFor(n) : LevelOf(m1) = LevelOf(m2) => m1 = m2
              /\ \A m \in CallsFor(n) : LevelOf(m) <= faults[n].pos
              /\ CatchersOf(n) # {} =>
                    /\ \A m \in CallsFor(n) : LevelOf(m) > CatcherOf(n)
                    /\ status # "raised" \/ exc # faults[n].fault
              /\ (faults[n].pos - 1 \in CatchersOf(n)) => Cardinality(CallsFor(n)) = 1
        /\ status = "raised" =>
              \E n \in 1..Len(faults) : exc = faults[n].fault /\ CatchersOf(n) = {}
        /\ (Done /\ \A n \in 1..Len(faults) : CatchersOf(n) # {}) => status = "returned"

\* C14 witness: [retry, raise] with a re-raising handler returned normally:
\* the fault of the second step was re-raised into retry, which caught it and
\* invoked its continuation again; the handler was called once for each of the
\* two faults.
C14_Witness ==
    /\ status = "returned"
    /\ args.error_handler = "reraise"
    /\ snap = <<"retry", "raise">>
    /\ Len(faults) = 2
    /\ Len(hlog) = 2
    /\ Len(log) = 3

\* The executions the step that raised the n-th fault caused before raising it
\* (by invoking its continuation): their first and last index in the log.
DownFirst(n) == ExecOf(n) + 1
DownLast(n) == faults[n].nlog

\* C15: steps are not executed at most once.  With a handler that resumes by
\* calling the continuation it was given, a step that invokes its continuation
\* and then faults has the downstream steps executed twice: the handler is
\* called with the very continuation (and data) the step was given, and by the
\* time the invocation has returned the executions the step caused before it
\* raised have been repeated, in the same order and on the same data, directly
\* behind the fault.
C15_DownstreamRunsTwice ==
    (Started /\ args.error_handler = "resume") =>
        /\ status # "raised"
        /\ \A n \in 1..Len(faults) :
              /\ \E m \in CallsFor(n) :
                    /\ hlog[m].next = log[ExecOf(n)].next
                    /\ hlog[m].data = log[ExecOf(n)].data
              /\ faults[n].fault.by = "fwdraise" =>
                    /\ faults[n].pos + 1 < Len(snap) => DownLast(n) >= DownFirst(n)
                    /\ \A k \in DownFirst(n)..DownLast(n) : log[k].pos > faults[n].pos
                    /\ status = "returned" =>
                          /\ Len(log) >= 2 * DownLast(n) - ExecOf(n)
                          /\ SubSeq(log, DownLast(n) + 1, 2 * DownLast(n) - ExecOf(n))
                                = SubSeq(log, DownFirst(n), DownLast(n))
                          /\ faults[n].pos + 1 < Len(snap) =>
                                CountPos(faults[n].pos + 1) >= 2

\* C15 witness: [fwdraise, fwd, rec] with the resuming handler returned; fwd
\* and rec were executed twice each.
C15_Witness ==
    /\ status = "returned"
    /\ args.error_handler = "resume"
    /\ snap = <<"fwdraise", "fwd", "rec">>
    /\ Len(faults) = 1
    /\ Len(log) = 5
    /\ CountPos(1) = 2 /\ CountPos(2) = 2
    /\ Len(recorded) = 2

\* The execution of the step at position p that was running when the first
\* fault of the run was raised: the latest one before it.
ExecAtFault(p) ==
    CHOOSE k \in 1..faults[1].nlog :
        /\ log[k].pos = p
        /\ \A k2 \in 1..faults[1].nlog : log[k2].pos = p => k2 <= k

\* C16: a fault is handed to the error handler once per cursor it escapes
\* through.  With a handler that re-raises (a custom one or the default) and a
\* fault raised by s_k behind steps s0..s_{k-1} none of which catches, the
\* handler is called for the cursor of s_k first, then for that of s_{k-1}, and
\* so on, each time with the same fault and with the data and continuation of
\* that level's step; when the fault has left Pipeline.__call__ the handler has
\* been called exactly k+1 times.
C16_HandlerOncePerCursor ==
    (Reraising /\ faults # <<>> /\ NoCatchUpTo(faults[1].pos)) =>
        /\ Len(faults) = 1
        /\ status # "returned"
        /\ Len(hlog) >= 1
        /\ Len(hlog) <= faults[1].pos + 1
        /\ \A j \in 1..Len(hlog) :
              /\ LevelOf(j) = faults[1].pos - (j - 1)
              /\ hlog[j].error = faults[1].fault
              /\ hlog[j].data = log[ExecAtFault(LevelOf(j))].data
              /\ hlog[j].next = log[ExecAtFault(LevelOf(j))].next
              /\ hlog[j].next = ContinuationAt(LevelOf(j))
        /\ status = "raised" =>
              /\ Len(hlog) = faults[1].pos + 1
              /\ exc = faults[1].fault

\* C16 witness: [fwd, fwd, raise] with the default handler ended with the fault
\* of the third step after three handler calls, the innermost first, on three
\* different data contexts.
C16_Witness ==
    /\ status = "raised"
    /\ args.error_handler = "None"
    /\ snap = <<"fwd", "fwd", "raise">>
    /\ Len(hlog) = 3
    /\ LevelOf(1) = 2 /\ LevelOf(2) = 1 /\ LevelOf(3) = 0
    /\ hlog[1].data # hlog[2].data /\ hlog[2].data # hlog[3].data
    /\ hlog[3].data = args.data_context

\* The steps that either raise at once or invoke their continuation once.
RaiseOrForwardOnce == {"raise", "fwd", "catch", "append"}

\* How many steps of the invoked list raise.
Raisers == Cardinality({i \in 1..Len(snap) : snap[i] = "raise"})

\* C17: with a handler that always resumes (calls its continuation once with
\* the data it was given) and steps each of which raises at once or forwards
\* once, every step of the pipeline is started exactly once, in list order, the
\* handler is called once per raising step, and Pipeline.__call__ returns
\* normally however many steps raise.
C17_ResumeRunsEveryStepOnce ==
    (Started /\ args.error_handler = "resume"
             /\ \A i \in 1..Len(snap) : snap[i] \in RaiseOrForwardOnce) =>
        /\ status # "raised"
        /\ exc = NoFault
        /\ Len(log) <= Len(snap)
        /\ \A k \in 1..Len(log) : log[k].pos = k - 1 /\ log[k].step = snap[k]
        /\ Len(hlog) = Len(faults)
        /\ \A n \in 1..Len(faults) : hlog[n].error = faults[n].fault
        /\ status = "returned" =>
              /\ Len(log) = Len(snap)
              /\ Len(faults) = Raisers

\* C17 witness: [raise, fwd, raise] with the resuming handler returned after
\* three step executions and two faults.
C17_Witness ==
    /\ status = "returned"
    /\ args.error_handler = "resume"
    /\ snap = <<"raise", "fwd", "raise">>
    /\ Len(log) = 3
    /\ Len(faults) = 2
    /\ Len(hlog) = 2

\* C18 as stated: the nesting depth of cursor invocations never exceeds the
\* number of steps n of the invoked pipeline.
C18_DepthAtMostN == Len(stack) <= Len(snap)

\* The cursor chain of a run: the invocation at depth j is that of the cursor
\* of position j-1, which holds n-(j-1) steps, and the continuation it builds
\* holds one step less; so there are at most n+1 nested cursor invocations, at
\* most n of them executing a step.
C18_CursorChain ==
    /\ Len(stack) <= Len(snap) + 1
    /\ \A j \in 1..Len(stack) :
          /\ stack[j].cursor.pos = j - 1
          /\ j > 1 => Len(stack[j].cursor.steps) = Len(snap) - (j - 1)
          /\ stack[j].pc = "call" => j = Len(stack)
          /\ stack[j].pc # "call" =>
                /\ j <= Len(snap)
                /\ Len(stack[j].next.steps) = Len(snap) - j
    /\ (Len(stack) = Len(snap) + 1) =>
          (Top.pc = "call" /\ QueueOf(Top.cursor) = <<>>)

\* The run stands at an appending step of a pipeline that is as long as the
\* model lets it grow.
AppendAtBound == Running /\ Top.pc = "step" /\ Top.cur = "append" /\ Len(queue) >= MaxLen

\* C18, amended: every continuation holds one step less than the cursor that
\* created it (the cursor of position i holds n-i steps), so the nesting depth
\* of cursor invocations never exceeds n+1, the innermost of n+1 being the
\* invocation of the terminal cursor, which returns at once; and an invocation
\* whose steps and handler invoke their continuation finitely often, and whose
\* bodies terminate, completes, normally or with a fault.
C18_Terminates ==
    /\ []C18_CursorChain
    /\ (status = "constructed") ~> (Done \/ AppendAtBound)

\* C18 witness: a pipeline of three steps, all forwarding, has its terminal
\* cursor invoked at depth four.
C18_Witness ==
    /\ Len(snap) = 3
    /\ Len(stack) = 4
    /\ Top.pc = "call"
    /\ QueueOf(Top.cursor) = <<>>
    /\ \A j \in 1..3 : stack[j].pc = "step"

====
